---------------------------- MODULE Spec2Model ----------------------------
(***************************************************************************)
(* Schema resolution by GroupVersionKind with reference inlining:          *)
(*   pkg/cel/openapi/resolver/discovery.go   (ClientDiscoveryResolver)     *)
(*   pkg/cel/openapi/resolver/definitions.go (DefinitionsSchemaResolver)   *)
(*                                                                         *)
(* Go memory is modelled as a heap of schema cells (what a pointer to a    *)
(* spec.Schema points at) and map cells (a map[string]spec.Schema): a      *)
(* struct assignment copies the fields and shares the map and the          *)
(* pointers, as in Go.  JSON documents are modelled as trees; Decode       *)
(* builds heap cells from a tree and Marshal reads a tree back.            *)
(***************************************************************************)
EXTENDS Naturals, Sequences, FiniteSets, TLC

VARIABLES
    table,        \* the definitions the data source exposes: name -> schema tree
    paths,        \* the discovery paths the API server serves
    transport,    \* the discovery transport: "ok", or the step of a call that fails
    resolver,     \* which SchemaResolver the caller holds
    built,        \* the static resolver has been constructed
    loopvar,      \* how the build scopes the range variable of the constructor
    heap,         \* the static resolver's memory: schema cells and map cells
    defs,         \* DefinitionsSchemaResolver.defs: name -> cell
    gvkToSchema,  \* DefinitionsSchemaResolver.gvkToSchema: GVK -> cell
    indexed,      \* the content of the defs and the index cells when constructed
    pc,           \* per caller: "idle", or "copied" inside the static ResolveSchema
    cur,          \* per caller: the call in flight
    returned,     \* the schemas the static resolver has handed to callers
    log,          \* the completed ResolveSchema calls, in order
    written       \* a caller has written into a schema it was handed

vars == <<table, paths, transport, resolver, built, loopvar, heap, defs, gvkToSchema,
          indexed, pc, cur, returned, log, written>>

---------------------------------------------------------------------------
(* Bounds of the model *)

MaxCalls == 2
\* populateRefs recursion deeper than this is the stack overflow of a cycle;
\* no acyclic table of the universe below nests this deep.
MaxDepth == 9

\* the goroutines that call the static resolver
Callers == {1, 2}

\* the nil pointer and the nil map
Nil == 0

---------------------------------------------------------------------------
(* Program constants *)

refPrefix == "#/components/schemas/"
extGVK == "x-kubernetes-group-version-kind"

---------------------------------------------------------------------------
(* JSON values of an extension payload *)

JStr(s) == [t |-> "string", v |-> s]
JNum(n) == [t |-> "number", v |-> n]
JArr(a) == [t |-> "array", v |-> a]
JObj(o) == [t |-> "object", v |-> o]

GVK(g, v, k) == [group |-> g, version |-> v, kind |-> k]
JGVK(gvk) == JObj([group |-> JStr(gvk.group), version |-> JStr(gvk.version),
                   kind |-> JStr(gvk.kind)])

NoExtensions == [k \in {} |-> Nil]
ExtensionOf(payload) == [k \in {extGVK} |-> payload]

\* gvkMap[key].(string): the key is present and holds a string
IsStringField(o, key) == key \in DOMAIN o /\ o[key].t = "string"

GVKShaped(e) ==
    /\ e.t = "object"
    /\ IsStringField(e.v, "group")
    /\ IsStringField(e.v, "version")
    /\ IsStringField(e.v, "kind")

extensionsToGVKs(extensions) ==
    IF extGVK \notin DOMAIN extensions THEN <<>>
    ELSE LET gvksAny == extensions[extGVK] IN
         IF gvksAny.t # "array" THEN <<>>
         ELSE IF \E i \in DOMAIN gvksAny.v : ~GVKShaped(gvksAny.v[i]) THEN <<>>
         ELSE [i \in DOMAIN gvksAny.v |->
                 GVK(gvksAny.v[i].v["group"].v, gvksAny.v[i].v["version"].v,
                     gvksAny.v[i].v["kind"].v)]

\* json.Unmarshal of one object field into a Go string field: an absent key or
\* a null leaves the zero value, a non-string is an UnmarshalTypeError.
FieldDecodes(o, key) == key \notin DOMAIN o \/ o[key].t \in {"string", "null"}
FieldValue(o, key) == IF key \in DOMAIN o /\ o[key].t = "string" THEN o[key].v ELSE ""

ElementDecodes(e) ==
    \/ e.t = "null"
    \/ /\ e.t = "object"
       /\ FieldDecodes(e.v, "group")
       /\ FieldDecodes(e.v, "version")
       /\ FieldDecodes(e.v, "kind")

ElementValue(e) ==
    IF e.t = "object"
    THEN GVK(FieldValue(e.v, "group"), FieldValue(e.v, "version"), FieldValue(e.v, "kind"))
    ELSE GVK("", "", "")

\* s.Extensions.GetObject(extGVK, &gvks): marshal the payload and unmarshal it
\* into []schema.GroupVersionKind.
GetObject(extensions, key) ==
    IF key \notin DOMAIN extensions THEN [err |-> FALSE, gvks |-> <<>>]
    ELSE LET v == extensions[key] IN
         IF v.t = "null" THEN [err |-> FALSE, gvks |-> <<>>]
         ELSE IF v.t # "array" THEN [err |-> TRUE, gvks |-> <<>>]
         ELSE IF \E i \in DOMAIN v.v : ~ElementDecodes(v.v[i])
              THEN [err |-> TRUE, gvks |-> <<>>]
         ELSE [err |-> FALSE, gvks |-> [i \in DOMAIN v.v |-> ElementValue(v.v[i])]]

---------------------------------------------------------------------------
(* Schema trees (the JSON form) *)

NoProps == [n \in {} |-> Nil]

Tree(ref, allOf, props, addl, items, desc, ext, nan) ==
    [ref |-> ref, allOf |-> allOf, props |-> props, addl |-> addl,
     items |-> items, desc |-> desc, ext |-> ext, nan |-> nan]

Leaf(d) == Tree("", <<>>, NoProps, <<>>, <<>>, d, NoExtensions, FALSE)
RefTo(n) == Tree(n, <<>>, NoProps, <<>>, <<>>, "", NoExtensions, FALSE)
\* a Ref wrapped in allOf to preserve its description
Wrapped(n, d) == Tree("", <<[ref |-> n, allOf |-> <<>>]>>, NoProps, <<>>, <<>>, d,
                      NoExtensions, FALSE)
Obj(d, props) == Tree("", <<>>, props, <<>>, <<>>, d, NoExtensions, FALSE)
Arr(d, item) == Tree("", <<>>, NoProps, <<>>, <<item>>, d, NoExtensions, FALSE)
MapOf(d, value) == Tree("", <<>>, NoProps, <<value>>, <<>>, d, NoExtensions, FALSE)
\* a schema holding a value encoding/json cannot marshal (a NaN default)
Unmarshalable(d) == Tree("", <<>>, NoProps, <<>>, <<>>, d, NoExtensions, TRUE)

WithExt(t, ext) == [t EXCEPT !.ext = ext]

---------------------------------------------------------------------------
(* The heap *)

EmptyHeap == [s |-> <<>>, m |-> <<>>]

Alloc(h, v) == [h EXCEPT !.s = Append(@, v)]
AllocMap(h, f) == [h EXCEPT !.m = Append(@, f)]

Struct(ref, allOf, props, addl, items, desc, ext, nan) ==
    [ref |-> ref, allOf |-> allOf, props |-> props, addl |-> addl,
     items |-> items, desc |-> desc, ext |-> ext, nan |-> nan]

PropNames == {"spec", "metadata"}
PropOrder == <<"spec", "metadata">>
KeySeq(S) == SelectSeq(PropOrder, LAMBDA n : n \in S)

RECURSIVE Decode(_, _), DecodeProps(_, _, _, _)

\* json.Unmarshal into a spec.Schema (and the literal the generated
\* definitions build): the struct, with fresh cells for what it points at.
Decode(h, t) ==
    LET ad == IF Len(t.addl) = 0 THEN [h |-> h, a |-> Nil]
              ELSE LET r == Decode(h, t.addl[1])
                   IN [h |-> Alloc(r.h, r.v), a |-> Len(r.h.s) + 1]
        it == IF Len(t.items) = 0 THEN [h |-> ad.h, a |-> Nil]
              ELSE LET r == Decode(ad.h, t.items[1])
                   IN [h |-> Alloc(r.h, r.v), a |-> Len(r.h.s) + 1]
        pr == IF DOMAIN t.props = {} THEN [h |-> it.h, a |-> Nil]
              ELSE LET r == DecodeProps(it.h, t.props, KeySeq(DOMAIN t.props), NoProps)
                   IN [h |-> AllocMap(r.h, r.f), a |-> Len(r.h.m) + 1]
    IN [h |-> pr.h,
        v |-> Struct(t.ref, t.allOf, pr.a, ad.a, it.a, t.desc, t.ext, t.nan)]

DecodeProps(h, props, names, acc) ==
    IF names = <<>> THEN [h |-> h, f |-> acc]
    ELSE LET r == Decode(h, props[Head(names)])
         IN DecodeProps(r.h, props, Tail(names), (Head(names) :> r.v) @@ acc)

Truncated == Leaf("...")

RECURSIVE Marshal(_, _, _)

\* json.Marshal of a spec.Schema: the tree under the struct (omitempty drops
\* a nil or empty properties map).
Marshal(h, v, fuel) ==
    IF fuel = 0 THEN Truncated
    ELSE Tree(v.ref, v.allOf,
              IF v.props = Nil THEN NoProps
              ELSE [n \in DOMAIN h.m[v.props] |-> Marshal(h, h.m[v.props][n], fuel - 1)],
              IF v.addl = Nil THEN <<>> ELSE <<Marshal(h, h.s[v.addl], fuel - 1)>>,
              IF v.items = Nil THEN <<>> ELSE <<Marshal(h, h.s[v.items], fuel - 1)>>,
              v.desc, v.ext, v.nan)

RECURSIVE Marshalable(_)

\* json.Marshal fails on a value it cannot encode anywhere in the tree
Marshalable(t) ==
    /\ ~t.nan
    /\ \A n \in DOMAIN t.props : Marshalable(t.props[n])
    /\ \A i \in DOMAIN t.addl : Marshalable(t.addl[i])
    /\ \A i \in DOMAIN t.items : Marshalable(t.items[i])

\* a copy of the struct alone: maps and pointers stay shared with the original
shallowCopy(h, a) == [h |-> Alloc(h, h.s[a]), a |-> Len(h.s) + 1, err |-> FALSE]

\* deepCopy of the schema in cell a: marshal, then unmarshal into new(spec.Schema)
deepCopy(h, a) ==
    LET t == Marshal(h, h.s[a], MaxDepth) IN
    IF ~Marshalable(t) THEN [h |-> h, a |-> Nil, err |-> TRUE]
    ELSE LET r == Decode(h, t)
         IN [h |-> Alloc(r.h, r.v), a |-> Len(r.h.s) + 1, err |-> FALSE]

---------------------------------------------------------------------------
(* Errors: notFound is errors.Is(err, ErrSchemaNotFound), set by %w *)

Err(kind, notFound, names) == [kind |-> kind, notFound |-> notFound, names |-> names]
NoErr == Err("nil", FALSE, "")
StackOverflow == Err("stack overflow", FALSE, "")

---------------------------------------------------------------------------
(* The Reference Inliner *)

RECURSIVE refOf(_)

refOf(schema) ==
    IF schema.ref # "" THEN [ref |-> schema.ref, isRef |-> TRUE]
    ELSE LET hits == {i \in DOMAIN schema.allOf : refOf(schema.allOf[i]).isRef} IN
         IF hits = {} THEN [ref |-> "", isRef |-> FALSE]
         ELSE refOf(schema.allOf[CHOOSE i \in hits : \A j \in hits : i <= j])

TrimPrefix(str, prefix) ==
    IF Len(str) >= Len(prefix) /\ SubSeq(str, 1, Len(prefix)) = prefix
    THEN SubSeq(str, Len(prefix) + 1, Len(str))
    ELSE str

NotFoundSchema(h) == [h |-> h, ok |-> FALSE, a |-> Nil]

\* the lookup closure of ClientDiscoveryResolver.ResolveSchema: the component
\* itself, not a copy
schemaOfComponents(h, schemas, ref) ==
    LET name == TrimPrefix(ref, refPrefix) IN
    IF name \in DOMAIN schemas THEN [h |-> h, ok |-> TRUE, a |-> schemas[name]]
    ELSE NotFoundSchema(h)

\* the lookup closure of DefinitionsSchemaResolver.ResolveSchema: a deep copy
\* of the definition, and "not found" when the copy fails
schemaOfDefinitions(h, d, ref) ==
    IF ref \notin DOMAIN d THEN NotFoundSchema(h)
    ELSE LET c == deepCopy(h, d[ref]) IN
         IF c.err THEN NotFoundSchema(h)
         ELSE [h |-> c.h, ok |-> TRUE, a |-> c.a]

schemaOf(h, env, ref) ==
    IF env.copies THEN schemaOfDefinitions(h, env.at, ref)
    ELSE schemaOfComponents(h, env.at, ref)

ErrRef(ref) == Err("internal error: cannot resolve Ref", TRUE, ref)

RECURSIVE populateRefs(_, _, _, _, _), populateProperties(_, _, _, _, _, _, _)

\* a descent that visits the array schema again instead of its element schema
populateItemsOfSelf(r, a, env, ord, fuel) ==
    IF r.err # NoErr THEN r
    ELSE IF r.h.s[a].items # Nil
         THEN populateRefs(r.h, a, env, ord, fuel - 1)
         ELSE r

\* if schema.Items != nil && schema.Items.Schema != nil { populateRefs(...) }
populateItems(r, a, env, ord, fuel) ==
    IF r.err # NoErr THEN r
    ELSE IF r.h.s[a].items # Nil
         THEN populateRefs(r.h, r.h.s[a].items, env, ord, fuel - 1)
         ELSE r

\* if schema.AdditionalProperties != nil && ... { populateRefs(...) }
populateAdditionalProperties(r, a, env, ord, fuel) ==
    IF r.err # NoErr THEN r
    ELSE IF r.h.s[a].addl # Nil
         THEN populateRefs(r.h, r.h.s[a].addl, env, ord, fuel - 1)
         ELSE r

\* the part of populateRefs after the schema's own reference is settled:
\* properties, then additionalProperties, then items, stopping at an error
populateChildren(h, a, env, ord, fuel) ==
    populateItems(
        populateAdditionalProperties(
            populateProperties(h, a, h.s[a].props, ord, env, ord, fuel),
            a, env, ord, fuel),
        a, env, ord, fuel)

\* resolved, ok := schemaOf(ref); if !ok { return error }; *schema = *resolved
replaceSchema(resolved, a, ref, env, ord, fuel) ==
    IF ~resolved.ok THEN [h |-> resolved.h, err |-> ErrRef(ref)]
    ELSE populateChildren([resolved.h EXCEPT !.s[a] = resolved.h.s[resolved.a]],
                          a, env, ord, fuel)

populateRef(r, h, a, env, ord, fuel) ==
    IF r.isRef THEN replaceSchema(schemaOf(h, env, r.ref), a, r.ref, env, ord, fuel)
    ELSE populateChildren(h, a, env, ord, fuel)

\* populateRefs(schemaOf, schema) on the schema in cell a.  ord is the order in
\* which the range statements visit property names; fuel is the depth left.
populateRefs(h, a, env, ord, fuel) ==
    IF fuel = 0 THEN [h |-> h, err |-> StackOverflow]
    ELSE populateRef(refOf(h.s[a]), h, a, env, ord, fuel)

\* schema.Properties[name] = prop, after populateRefs(schemaOf, &prop) returned r
storeProperty(r, a, name, prop) ==
    IF r.err # NoErr THEN r
    ELSE [h |-> [r.h EXCEPT !.m[r.h.s[a].props] = (name :> r.h.s[prop]) @@ @],
          err |-> NoErr]

populateNext(r, a, m, names, env, ord, fuel) ==
    IF r.err # NoErr THEN r
    ELSE populateProperties(r.h, a, m, names, env, ord, fuel)

\* for name, prop := range schema.Properties: the names of map m still to
\* visit are those of the sequence names; prop is a copy in a cell of its own
populateProperties(h, a, m, names, env, ord, fuel) ==
    IF m = Nil \/ names = <<>> THEN [h |-> h, err |-> NoErr]
    ELSE IF Head(names) \notin DOMAIN h.m[m]
    THEN populateProperties(h, a, m, Tail(names), env, ord, fuel)
    ELSE populateNext(
             storeProperty(
                 populateRefs(Alloc(h, h.m[m][Head(names)]), Len(h.s) + 1, env, ord,
                              fuel - 1),
                 a, Head(names), Len(h.s) + 1),
             a, m, Tail(names), env, ord, fuel)

---------------------------------------------------------------------------
(* The discovery-backed resolver *)

GroupVersionString(gvk) ==
    IF Len(gvk.group) > 0 THEN gvk.group \o "/" \o gvk.version ELSE gvk.version

GVKString(gvk) == gvk.group \o "/" \o gvk.version \o ", Kind=" \o gvk.kind

resourcePathFromGV(gv) ==
    IF Len(gv.group) = 0 THEN "api/" \o gv.version
    ELSE "apis/" \o gv.group \o "/" \o gv.version

Range(f) == {f[i] : i \in DOMAIN f}

RECURSIVE resolveType(_, _, _, _)

\* resolveType(resp, gvk), visiting the components in the order scan
resolveType(h, schemas, gvk, scan) ==
    IF scan = <<>>
    THEN [a |-> Nil, err |-> Err("cannot resolve group version kind", TRUE, GVKString(gvk))]
    ELSE LET s == schemas[Head(scan)]
             got == GetObject(h.s[s].ext, extGVK)
         IN IF got.err THEN [a |-> Nil, err |-> Err("json: cannot unmarshal", FALSE, "")]
            ELSE IF gvk \in Range(got.gvks) THEN [a |-> s, err |-> NoErr]
            ELSE resolveType(h, schemas, gvk, Tail(scan))

---------------------------------------------------------------------------
(* The inputs: definition tables, discovery paths, requests *)

Names == {"Pod", "PodSpec", "Container"}
NameOrder == <<"Pod", "PodSpec", "Container">>

gvkPod == GVK("", "v1", "Pod")
gvkDeployment == GVK("apps", "v1", "Deployment")
\* the identity an element without a kind would have
gvkNoKind == GVK("", "v1", "")

Requests == {gvkPod, gvkDeployment, gvkNoKind}

PathSets == {{"api/v1"}, {"api/v1", "apis/apps/v1"}}

\* the steps of a discovery call the transport can fail: Paths(), Schema(),
\* and the decoding of what it sent
Faults == {"paths", "schema", "unmarshal"}

ExtGVKs(gvks) == ExtensionOf(JArr([i \in DOMAIN gvks |-> JGVK(gvks[i])]))
\* malformed payloads: not a sequence; an element without kind beside a
\* well-formed one; an element whose group is a number
ExtNotASequence == ExtensionOf(JStr("Pod"))
ExtMissingKind ==
    ExtensionOf(JArr(<<JGVK(gvkDeployment),
                       JObj([group |-> JStr(""), version |-> JStr("v1")])>>))
ExtWrongType ==
    ExtensionOf(JArr(<<JObj([group |-> JNum(1), version |-> JStr("v1"),
                             kind |-> JStr("Pod")])>>))

PodExts == {ExtGVKs(<<gvkPod>>), ExtGVKs(<<gvkPod, gvkDeployment>>)}
PodSpecExts == {NoExtensions, ExtNotASequence, ExtMissingKind, ExtWrongType,
                ExtGVKs(<<gvkPod>>), ExtGVKs(<<gvkDeployment>>)}

\* "Volume" and "Secret" are defined nowhere: references to them dangle
PodShapes ==
    {Obj("Pod", [spec |-> RefTo("PodSpec")]),
     Obj("Pod", [spec |-> Wrapped("PodSpec", "the spec")]),
     Obj("Pod", [spec |-> RefTo("Volume")]),
     Obj("Pod", [spec |-> RefTo("PodSpec"), metadata |-> RefTo("Container")]),
     Obj("Pod", [spec |-> RefTo("PodSpec"), metadata |-> RefTo("PodSpec")]),
     Obj("Pod", [spec |-> RefTo("Volume"), metadata |-> RefTo("Secret")]),
     RefTo("PodSpec")}

PodSpecShapes ==
    {Leaf("PodSpec"), RefTo("Container"), Wrapped("Container", "PodSpec"),
     Arr("PodSpec", RefTo("Container")), MapOf("PodSpec", RefTo("Container")),
     Obj("PodSpec", [spec |-> RefTo("Container")])}

ContainerShapes == {Leaf("Container"), Arr("Container", RefTo("PodSpec"))}

MakeTable(pod, podSpec, container) ==
    [n \in Names |-> CASE n = "Pod" -> pod
                       [] n = "PodSpec" -> podSpec
                       [] OTHER -> container]

OnlyPod == ExtGVKs(<<gvkPod>>)

\* every shape, Pod alone declaring a GVK
ShapeTables ==
    {MakeTable(WithExt(p, OnlyPod), s, c) :
        p \in PodShapes, s \in PodSpecShapes, c \in ContainerShapes}

\* every extension payload on the plain shapes
ExtensionTables ==
    {MakeTable(WithExt(Obj("Pod", [spec |-> RefTo("PodSpec")]), pe),
               WithExt(Arr("PodSpec", RefTo("Container")), se),
               Leaf("Container")) : pe \in PodExts, se \in PodSpecExts}

\* tables in which the requested schema, or one it refers to, cannot be marshalled
UnmarshalableTables ==
    {MakeTable(WithExt(Unmarshalable("Pod"), OnlyPod), Leaf("PodSpec"), Leaf("Container"))}
    \cup {MakeTable(WithExt(Obj("Pod", [spec |-> RefTo("PodSpec")]), OnlyPod), s,
                    Unmarshalable("Container")) :
             s \in {Leaf("PodSpec"), Arr("PodSpec", RefTo("Container"))}}

Tables == ShapeTables \cup ExtensionTables \cup UnmarshalableTables

RECURSIVE WithRefPrefix(_, _)

\* the tree with every reference written as prefix + name
WithRefPrefix(t, prefix) ==
    LET Ref(r) == IF r = "" THEN "" ELSE prefix \o r IN
    [t EXCEPT !.ref = Ref(@),
              !.allOf = [i \in DOMAIN @ |-> [@[i] EXCEPT !.ref = Ref(@)]],
              !.props = [n \in DOMAIN @ |-> WithRefPrefix(@[n], prefix)],
              !.addl = [i \in DOMAIN @ |-> WithRefPrefix(@[i], prefix)],
              !.items = [i \in DOMAIN @ |-> WithRefPrefix(@[i], prefix)]]

\* the OpenAPI v3 document the server sends for a path: components.schemas
Document == [n \in Names |-> WithRefPrefix(table[n], refPrefix)]

\* getDefinitions(func(path) spec.Ref { return spec.MustCreateRef(path) })
getDefinitions == [n \in Names |-> WithRefPrefix(table[n], "")]

Perms(S) == {p \in [1..Cardinality(S) -> S] : \A i, j \in DOMAIN p : p[i] = p[j] => i = j}

RECURSIVE DecodeAll(_, _, _, _)

\* one cell per named schema of a table
DecodeAll(h, trees, names, acc) ==
    IF names = <<>> THEN [h |-> h, at |-> acc]
    ELSE LET r == Decode(h, trees[Head(names)])
         IN DecodeAll(Alloc(r.h, r.v), trees, Tail(names),
                      (Head(names) :> (Len(r.h.s) + 1)) @@ acc)

---------------------------------------------------------------------------
(* The state *)

NoIndex == [g \in {} |-> Nil]
NoCells == [n \in {} |-> Nil]
NoCall == [gvk |-> gvkPod, a |-> Nil, root |-> <<>>]

\* a completed call: what was asked, the error or the schema returned (as the
\* tree a full traversal reads when the call returns), the schema the lookup
\* found before inlining, whether a document was fetched, the transport fault
\* if any, and whether a caller's write preceded the return
Call(gvk, err, schema, root, fetched, fault) ==
    [gvk |-> gvk, err |-> err, schema |-> schema, root |-> root,
     fetched |-> fetched, fault |-> fault, afterWrite |-> written]

\* a stack overflow is fatal to the process
Crashed == \E i \in DOMAIN log : log[i].err = StackOverflow

InFlight == Cardinality({c \in Callers : pc[c] # "idle"})

CanCall == ~Crashed /\ Len(log) + InFlight < MaxCalls

Init ==
    /\ table \in Tables
    /\ resolver \in {"discovery", "definitions"}
    /\ paths \in IF resolver = "discovery" THEN PathSets ELSE {{}}
    /\ transport \in IF resolver = "discovery" THEN {"ok"} \cup Faults ELSE {"ok"}
    /\ built = (resolver = "discovery")
    /\ loopvar = "none"
    /\ heap = EmptyHeap
    /\ defs = NoCells
    /\ gvkToSchema = NoIndex
    /\ indexed = [defs |-> NoCells, index |-> NoIndex]
    /\ pc = [c \in Callers |-> "idle"]
    /\ cur = [c \in Callers |-> NoCall]
    /\ returned = <<>>
    /\ log = <<>>
    /\ written = FALSE

---------------------------------------------------------------------------
(* The static-table resolver *)

ZeroSchema == Struct("", <<>>, Nil, Nil, Nil, "", NoExtensions, FALSE)

\* namer.GetDefinitionName(name): the extensions the naming scheme has for name
GetDefinitionName(name) == table[name].ext

\* where the range variable def of an iteration lives: one variable for the
\* whole loop, or one per iteration, as the language version of the build has it
DefVar(sem, vars0, name) == IF sem = "shared" THEN vars0["Pod"] ELSE vars0[name]

RECURSIVE IndexDefinitions(_, _, _, _, _, _)

\* for name, def := range defs { ... gvkToSchema[gvk] = &def.Schema }
IndexDefinitions(h, d, order, sem, vars0, index) ==
    IF order = <<>> THEN [h |-> h, index |-> index]
    ELSE LET name == Head(order)
             def == DefVar(sem, vars0, name)
             gvks == extensionsToGVKs(GetDefinitionName(name))
         IN IndexDefinitions([h EXCEPT !.s[def] = h.s[d[name]]], d, Tail(order), sem,
                             vars0, [g \in Range(gvks) |-> def] @@ index)

Snapshot(h, d, index) ==
    [defs |-> [n \in DOMAIN d |-> Marshal(h, h.s[d[n]], MaxDepth)],
     index |-> [g \in DOMAIN index |-> Marshal(h, h.s[index[g]], MaxDepth)]]

NewDefinitionsSchemaResolver(order, sem) ==
    /\ resolver = "definitions"
    /\ ~built
    /\ LET d == DecodeAll(EmptyHeap, getDefinitions, NameOrder, NoCells)
           v == DecodeAll(d.h, [n \in Names |-> Leaf("")], NameOrder, NoCells)
           r == IndexDefinitions(v.h, d.at, order, sem, v.at, NoIndex)
       IN /\ heap' = r.h
          /\ defs' = d.at
          /\ gvkToSchema' = r.index
          /\ indexed' = Snapshot(r.h, d.at, r.index)
    /\ built' = TRUE
    /\ loopvar' = sem
    /\ UNCHANGED <<table, paths, transport, resolver, pc, cur, returned, log, written>>

DefinitionsEnv == [copies |-> TRUE, at |-> defs]

\* DefinitionsSchemaResolver.ResolveSchema up to the deep copy of the indexed
\* schema; a new call runs as the first caller that is free
DefinitionsLookup(c, gvk) ==
    /\ resolver = "definitions"
    /\ built
    /\ pc[c] = "idle"
    /\ \A d \in Callers : d < c => pc[d] # "idle"
    /\ CanCall
    /\ IF gvk \notin DOMAIN gvkToSchema
       THEN /\ log' = Append(log, Call(gvk, Err("cannot resolve", TRUE, GVKString(gvk)),
                                       <<>>, <<>>, FALSE, "none"))
            /\ UNCHANGED <<heap, pc, cur>>
       ELSE LET s == gvkToSchema[gvk]
                root == Marshal(heap, heap.s[s], MaxDepth)
                result == deepCopy(heap, s)
            IN IF result.err
               THEN /\ log' = Append(log, Call(gvk,
                                 Err("cannot deep copy schema", FALSE, GVKString(gvk)),
                                 <<>>, <<root>>, FALSE, "none"))
                    /\ UNCHANGED <<heap, pc, cur>>
               ELSE /\ heap' = result.h
                    /\ pc' = [pc EXCEPT ![c] = "copied"]
                    /\ cur' = [cur EXCEPT ![c] = [gvk |-> gvk, a |-> result.a,
                                                  root |-> <<root>>]]
                    /\ UNCHANGED log
    /\ UNCHANGED <<table, paths, transport, resolver, built, loopvar, defs, gvkToSchema,
                   indexed, returned, written>>

\* ... and from there: populateRefs on the copy, and the return
DefinitionsPopulate(c, ord) ==
    /\ pc[c] = "copied"
    /\ ~Crashed
    /\ LET r == populateRefs(heap, cur[c].a, DefinitionsEnv, ord, MaxDepth) IN
       IF r.err # NoErr
       THEN /\ log' = Append(log, Call(cur[c].gvk, r.err, <<>>, cur[c].root, FALSE, "none"))
            /\ heap' = IF r.err = StackOverflow THEN heap ELSE r.h
            /\ UNCHANGED returned
       ELSE /\ log' = Append(log, Call(cur[c].gvk, NoErr,
                                       <<Marshal(r.h, r.h.s[cur[c].a], MaxDepth)>>,
                                       cur[c].root, FALSE, "none"))
            /\ heap' = r.h
            /\ returned' = Append(returned, cur[c].a)
    /\ pc' = [pc EXCEPT ![c] = "idle"]
    /\ cur' = [cur EXCEPT ![c] = NoCall]
    /\ UNCHANGED <<table, paths, transport, resolver, built, loopvar, defs, gvkToSchema,
                   indexed, written>>

---------------------------------------------------------------------------
(* What a caller does with a schema it was handed *)

RECURSIVE CellsUnder(_, _, _), MapsUnder(_, _, _)

\* the schema cells a holder of struct v reaches through its pointers and maps
CellsUnder(h, v, fuel) ==
    IF fuel = 0 THEN {}
    ELSE (IF v.addl = Nil THEN {} ELSE {v.addl} \cup CellsUnder(h, h.s[v.addl], fuel - 1))
         \cup (IF v.items = Nil THEN {}
               ELSE {v.items} \cup CellsUnder(h, h.s[v.items], fuel - 1))
         \cup (IF v.props = Nil THEN {}
               ELSE UNION {CellsUnder(h, h.m[v.props][n], fuel - 1) :
                              n \in DOMAIN h.m[v.props]})

\* ... and the property maps it reaches
MapsUnder(h, v, fuel) ==
    IF fuel = 0 THEN {}
    ELSE (IF v.addl = Nil THEN {} ELSE MapsUnder(h, h.s[v.addl], fuel - 1))
         \cup (IF v.items = Nil THEN {} ELSE MapsUnder(h, h.s[v.items], fuel - 1))
         \cup (IF v.props = Nil THEN {}
               ELSE {v.props} \cup UNION {MapsUnder(h, h.m[v.props][n], fuel - 1) :
                                             n \in DOMAIN h.m[v.props]})

MutatedSchema == Struct("", <<>>, Nil, Nil, Nil, "mutated", NoExtensions, FALSE)

\* the heap after the holder of cell a overwrote everything it can reach from it
Overwritten(h, a) ==
    LET cells == {a} \cup CellsUnder(h, h.s[a], MaxDepth)
        maps  == MapsUnder(h, h.s[a], MaxDepth)
    IN [s |-> [c \in DOMAIN h.s |-> IF c \in cells THEN MutatedSchema ELSE h.s[c]],
        m |-> [k \in DOMAIN h.m |-> IF k \in maps
                                     THEN [n \in DOMAIN h.m[k] |-> MutatedSchema]
                                     ELSE h.m[k]]]

\* the caller writes into the schema it was handed: the struct, the structs it
\* points at, and the entries of its property maps
MutateSchema(i) ==
    /\ heap' = Overwritten(heap, returned[i])
    /\ heap' # heap
    /\ written' = TRUE
    /\ UNCHANGED <<table, paths, transport, resolver, built, loopvar, defs, gvkToSchema,
                   indexed, pc, cur, returned, log>>

---------------------------------------------------------------------------
(* ClientDiscoveryResolver.ResolveSchema *)

ComponentsEnv(schemas) == [copies |-> FALSE, at |-> schemas]

TransportError(fault) == Err(fault, FALSE, "")

\* ClientDiscoveryResolver.ResolveSchema(gvk): scan is the order in which
\* resolveType visits the components, ord the order in which populateRefs
\* visits properties.  A document holding what JSON cannot carry does not decode.
ResolveSchema(gvk, scan, ord) ==
    LET resourcePath == resourcePathFromGV(gvk) IN
    IF transport = "paths"
    THEN Call(gvk, TransportError("paths"), <<>>, <<>>, FALSE, "paths")
    ELSE IF resourcePath \notin paths
    THEN Call(gvk, Err("cannot resolve group version", TRUE, GroupVersionString(gvk)),
              <<>>, <<>>, FALSE, "none")
    ELSE IF transport = "schema"
    THEN Call(gvk, TransportError("schema"), <<>>, <<>>, TRUE, "schema")
    ELSE IF transport = "unmarshal" \/ \E n \in Names : ~Marshalable(Document[n])
    THEN Call(gvk, TransportError("unmarshal"), <<>>, <<>>, TRUE, "unmarshal")
    ELSE
    LET resp == DecodeAll(EmptyHeap, Document, NameOrder, NoCells)
        s == resolveType(resp.h, resp.at, gvk, scan)
    IN
    IF s.err # NoErr THEN Call(gvk, s.err, <<>>, <<>>, TRUE, "none")
    ELSE
    LET root == Marshal(resp.h, resp.h.s[s.a], MaxDepth)
        r == populateRefs(resp.h, s.a, ComponentsEnv(resp.at), ord, MaxDepth)
    IN
    IF r.err # NoErr THEN Call(gvk, r.err, <<>>, <<root>>, TRUE, "none")
    ELSE Call(gvk, NoErr, <<Marshal(r.h, r.h.s[s.a], MaxDepth)>>, <<root>>, TRUE, "none")

ClientResolveSchema(gvk, scan, ord) ==
    /\ resolver = "discovery"
    /\ CanCall
    /\ log' = Append(log, ResolveSchema(gvk, scan, ord))
    /\ UNCHANGED <<table, paths, transport, resolver, built, loopvar, heap, defs,
                   gvkToSchema, indexed, pc, cur, returned, written>>

---------------------------------------------------------------------------

Next ==
    \/ \E order \in Perms(Names), sem \in {"shared", "perIteration"} :
          NewDefinitionsSchemaResolver(order, sem)
    \/ \E c \in Callers, gvk \in Requests : DefinitionsLookup(c, gvk)
    \/ \E c \in Callers, ord \in Perms(PropNames) : DefinitionsPopulate(c, ord)
    \/ \E i \in DOMAIN returned : MutateSchema(i)
    \/ \E gvk \in Requests, scan \in Perms(Names), ord \in Perms(PropNames) :
          ClientResolveSchema(gvk, scan, ord)

Spec == Init /\ [][Next]_vars

---------------------------------------------------------------------------
(* Vocabulary of the properties *)

RECURSIVE HasReference(_)

\* a full traversal (the root, every property, additional-properties and items
\* schema) meets a node whose reference indicator is non-empty
HasReference(t) ==
    \/ t.ref # ""
    \/ \E n \in DOMAIN t.props : HasReference(t.props[n])
    \/ \E i \in DOMAIN t.addl : HasReference(t.addl[i])
    \/ \E i \in DOMAIN t.items : HasReference(t.items[i])

\* the definition a reference string names, in either resolver's notation
TargetOf(ref) == TrimPrefix(ref, refPrefix)

RECURSIVE Targets(_)

\* the names a schema tree refers to, at any node
Targets(t) ==
    (IF refOf(t).isRef THEN {TargetOf(refOf(t).ref)} ELSE {})
    \cup UNION {Targets(t.props[n]) : n \in DOMAIN t.props}
    \cup UNION {Targets(t.addl[i]) : i \in DOMAIN t.addl}
    \cup UNION {Targets(t.items[i]) : i \in DOMAIN t.items}

RECURSIVE ReachableFrom(_, _)

\* the definitions reachable from a set of names through references
ReachableFrom(names, steps) ==
    IF steps = 0 THEN names
    ELSE ReachableFrom(names \cup UNION {Targets(table[n]) : n \in names \cap Names},
                       steps - 1)

Closure(names) == ReachableFrom(names, Cardinality(Names))

\* a reference cycle is reachable from the schema t
CycleReachable(t) ==
    \E n \in Closure(Targets(t)) \cap Names : n \in Closure(Targets(table[n]))

Completed == {i \in DOMAIN log : log[i].fault = "none"}
Succeeded == {i \in Completed : log[i].err = NoErr}

\* the GVKs an entry lists, read element by element: those of the elements
\* that are mappings with three string fields
Listed(ext) ==
    IF extGVK \in DOMAIN ext /\ ext[extGVK].t = "array"
    THEN {ElementValue(ext[extGVK].v[i]) :
             i \in {j \in DOMAIN ext[extGVK].v : GVKShaped(ext[extGVK].v[j])}}
    ELSE {}

\* the extension is present and extensionsToGVKs rejects it
Malformed(ext) ==
    /\ extGVK \in DOMAIN ext
    /\ \/ ext[extGVK].t # "array"
       \/ \E i \in DOMAIN ext[extGVK].v : ~GVKShaped(ext[extGVK].v[i])

\* the entries that declare gvk with a well-formed extension
Declarers(gvk) == {n \in Names : gvk \in Range(extensionsToGVKs(table[n].ext))}

RECURSIVE FinalTarget(_, _)

\* where a chain of references starting at definition name ends
FinalTarget(name, steps) ==
    IF steps = 0 \/ name \notin Names \/ ~refOf(table[name]).isRef THEN name
    ELSE FinalTarget(TargetOf(refOf(table[name]).ref), steps - 1)

---------------------------------------------------------------------------
(* The claims *)

\* C1: no schema that ResolveSchema returns, from either resolver, holds a
\* node with a non-empty reference indicator: a full traversal of the result
\* (root, properties, additional properties, items) finds none.
C1_NoReferenceReturned ==
    \A i \in Succeeded : ~HasReference(log[i].schema[1])

C3_IndexMapsDeclaringEntry ==
    (/\ resolver = "definitions" /\ built
     /\ \A n \in Names : \A g \in Range(extensionsToGVKs(table[n].ext)) :
           Declarers(g) = {n}) =>
        /\ DOMAIN gvkToSchema = UNION {Range(extensionsToGVKs(table[n].ext)) : n \in Names}
        /\ \A g \in DOMAIN gvkToSchema : \A n \in Declarers(g) :
              Marshal(heap, heap.s[gvkToSchema[g]], MaxDepth) = getDefinitions[n]
        /\ \A i \in DOMAIN log : \A n \in Declarers(log[i].gvk) :
              log[i].root = <<getDefinitions[n]>>

\* C4: a reference whose target is itself a reference (bare or wrapped in
\* allOf) is followed to the end of the chain: the node ends up holding the
\* content of the final target that is not a reference.
C4_ChainsFollowed ==
    \A i \in Succeeded : \A p \in DOMAIN log[i].root[1].props :
        LET node == log[i].root[1].props[p]
            first == TargetOf(refOf(node).ref)
            last == FinalTarget(first, Cardinality(Names))
            got == log[i].schema[1].props[p]
        IN (/\ refOf(node).isRef
            /\ first \in Names /\ refOf(table[first]).isRef
            /\ last \in Names /\ ~refOf(table[last]).isRef) =>
               /\ ~refOf(got).isRef
               /\ got.desc = table[last].desc

\* C5: in both resolvers a type with a malformed GVK extension never makes
\* ResolveSchema fail for a type that declares the requested GVK with a
\* well-formed extension: the lookup of that type succeeds.
C5_MalformedExtensionTolerated ==
    \A i \in Completed :
        (/\ Declarers(log[i].gvk) # {}
         /\ resolver = "discovery" => resourcePathFromGV(log[i].gvk) \in paths) =>
            log[i].root # <<>>

\* C6: GVK extraction is all or nothing: a type is indexed or matched only
\* under the GVKs of an extension whose every element is well-formed, never
\* under those of a partly malformed one nor under an identity with an empty
\* field.
C6_ExtractionAllOrNothing ==
    \A i \in Completed : log[i].root # <<>> => Declarers(log[i].gvk) # {}

\* C7: the discovery resolver looks under "api/<version>" for the empty group
\* and "apis/<group>/<version>" otherwise; an absent path gives Not Found
\* naming the group/version with no document fetched, and a present path with
\* no component declaring the GVK gives Not Found naming the GVK; no schema is
\* returned in either case.
C7_NotFoundNamesRequest ==
    resolver = "discovery" =>
        \A i \in Completed :
            LET g == log[i].gvk
                path == IF g.group = "" THEN "api/" \o g.version
                        ELSE "apis/" \o g.group \o "/" \o g.version
            IN /\ path \notin paths =>
                      /\ log[i].err.notFound
                      /\ log[i].err.names = GroupVersionString(g)
                      /\ ~log[i].fetched
                      /\ log[i].schema = <<>>
               /\ (path \in paths /\ \A n \in Names : g \notin Listed(table[n].ext)) =>
                      /\ log[i].err.notFound
                      /\ log[i].err.names = GVKString(g)
                      /\ log[i].schema = <<>>

\* C8: ResolveSchema returns an error matching the schema-not-found sentinel
\* only when the requested GVK itself has no schema; once the GVK's schema is
\* found, a dangling reference or a failed deep copy gives another kind of error.
C8_NotFoundMeansAbsentGVK ==
    \A i \in DOMAIN log : log[i].err.notFound => log[i].root = <<>>

\* C9: for a fixed discovery document and GVK the outcome of ResolveSchema
\* (success or failure, and the returned schema) is the same whatever order
\* the components and the properties are visited in.
C9_OutcomeIndependentOfOrder ==
    resolver = "discovery" =>
        \A i, j \in Completed :
            log[i].gvk = log[j].gvk =>
                /\ (log[i].err = NoErr) = (log[j].err = NoErr)
                /\ log[i].schema = log[j].schema

\* C10: when no reference cycle is reachable from the requested schema,
\* ResolveSchema terminates in either resolver: the recursion of populateRefs
\* ends, with a schema or an error.
C10_AcyclicTerminates ==
    \A i \in DOMAIN log :
        (log[i].root # <<>> /\ ~CycleReachable(log[i].root[1])) =>
            log[i].err # StackOverflow

\* the discovery resolver returned a schema in which one component, itself
\* holding a reference in its property map, was inlined under two properties
C10_Witness ==
    \E i \in Succeeded :
        /\ resolver = "discovery"
        /\ ~CycleReachable(log[i].root[1])
        /\ DOMAIN log[i].root[1].props = {"spec", "metadata"}
        /\ log[i].schema[1].props["spec"] = log[i].schema[1].props["metadata"]
        /\ DOMAIN log[i].schema[1].props["spec"].props # {}

=============================================================================
